---- MODULE Spec2Model ----
(***************************************************************************)
(* Museum exhibit catalog (RizobekS/museum): identity assignment, QR       *)
(* generation and persistence of Exhibit rows, as implemented in           *)
(* museum/models.py and museum/admin.py.                                   *)
(*                                                                         *)
(* Every request handler p works on its own in-memory Exhibit instance     *)
(* obj[p]; the table of persisted rows, the file storage and the catalog   *)
(* (museum slugs, section numbers) are shared.  Exhibit.save is two steps: *)
(* SaveBegin is what runs before super().save() (the read of the group's   *)
(* highest sequence_no, the slug, the QR file), SaveWrite is super().save()*)
(* itself, so that other handlers can run between the read and the write.  *)
(*                                                                         *)
(* Spec      : exhibits are created and deleted by concurrent requests.    *)
(* SpecAdmin : one exhibit under concurrent admin requests, which also     *)
(*             read it back, move it to another block and section, save it *)
(*             again, regenerate its QR and renumber its section.          *)
(***************************************************************************)
EXTENDS Integers, Sequences, FiniteSets, Bags, TLC

VARIABLES
    codeNum,       \* MuseumSection.code_num of every section
    rows,          \* the Exhibit table: primary key -> persisted row
    createdOrder,  \* the primary keys of the rows, ordered by created_at
    nextPk,        \* the table's auto-increment
    files,         \* the file storage: the bag of QR files it holds
    obj,           \* the in-memory Exhibit instance of every request
    pc,            \* where every request is: idle, fresh, saving, done
    outcome,       \* how the save of every request ended
    museums,       \* the Museum table: the primary keys of its rows
    blocks,        \* the MuseumBlock table: the primary keys of its rows
    sections,      \* the MuseumSection table: the primary keys of its rows
    photos,        \* the ExhibitPhoto table: primary key -> persisted row
    nextPhotoId,   \* the ExhibitPhoto table's auto-increment
    request,       \* the last public request, or the arguments of a call
    response       \* what that request or call returned

exhibitVars == <<codeNum, rows, createdOrder, nextPk, files, obj, pc, outcome>>
catalogVars == <<museums, blocks, sections>>
photoVars == <<photos, nextPhotoId>>
viewVars == <<request, response>>

vars == <<exhibitVars, catalogVars, photoVars, viewVars>>

(* ------------------------------ bounds -------------------------------- *)

\* primary keys handed out by the table's auto-increment
MaxPk == 3
\* files the storage holds at most
MaxFiles == 3

\* primary keys handed out by the auto-increment of the photo table
MaxPhotos == 3

\* exhibits created where photos and the catalog are managed
MaxOwners == 2

\* concurrent request handlers
Procs == {1, 2}

(* ------------------------------ catalog ------------------------------- *)

None == 0

Museums == {1, 2}
Blocks == {1, 2}
Sections == {1, 2}

\* Museum.slug
museumSlug == <<"ISC", "NMU">>
\* MuseumBlock.museum
blockMuseum == <<1, 2>>
\* MuseumBlock.slug
blockSlug == <<"REN2", "ANT1">>

\* MuseumSection.museum_block
sectionBlock == <<1, 2>>
\* MuseumSection.museum
sectionMuseum == <<1, 2>>

\* the (block, section) values a request puts on an instance: every section with
\* its block, and the instance that lacks its block or its section
Groups == {<<sectionBlock[s], s>> : s \in Sections}
Places == Groups \cup {<<None, 1>>, <<1, None>>}

\* the renumberings of a section the administrators make: <<section, code_num>>
CodeEdits == {<<1, 2>>, <<1, 1>>}

BASE_URL == "http://127.0.0.1:8000"

(* --------------------------- pure functions --------------------------- *)

\* Format04d with a field width of 3
Format03d(n) ==
    LET s == ToString(n)
    IN  CASE Len(s) = 1 -> "00" \o s
          [] Len(s) = 2 -> "0" \o s
          [] OTHER      -> s

\* format(seq, "04d"): decimal digits, zero-padded on the left to width 4
Format04d(n) ==
    LET s == ToString(n)
    IN  CASE Len(s) = 1 -> "000" \o s
          [] Len(s) = 2 -> "00" \o s
          [] Len(s) = 3 -> "0" \o s
          [] OTHER      -> s

\* the f-string of Exhibit._build_slug
SlugFormat(museum_code, block_code, section_code, seq) ==
    museum_code \o "-" \o block_code \o "-" \o ToString(section_code)
        \o "." \o Format04d(seq)

\* Exhibit._build_slug, for an instance whose block and section are set
_build_slug(o) ==
    SlugFormat(museumSlug[blockMuseum[o.block]], blockSlug[o.block],
               codeNum[o.section], o.sequence_no)

\* get_qr_path with the block's code in the place of the museum's
get_qr_path_block(o) == "/" \o blockSlug[o.block] \o "/" \o o.slug

\* Exhibit.get_qr_path
get_qr_path(o) == "/" \o museumSlug[blockMuseum[o.block]] \o "/" \o o.slug

NoFile == [name |-> "", data |-> "", caption |-> ""]

\* Exhibit._generate_qr: the file handed to the storage
\* (data: the text given to qr.add_data; caption: the text drawn under it)
_generate_qr(o) ==
    [name |-> o.slug \o ".png", data |-> BASE_URL \o get_qr_path(o), caption |-> o.slug]

(* ------------------------------ the table ----------------------------- *)

NewInstance(b, s) ==
    [pk |-> None, block |-> b, section |-> s, sequence_no |-> 0, slug |-> "",
     qr_code |-> NoFile, title_ru |-> "", title_uz |-> "", title_en |-> "",
     is_published |-> TRUE]

\* an instance read from the table (Exhibit.objects.get, a queryset's element)
LoadInstance(k) ==
    [pk |-> k, block |-> rows[k].block, section |-> rows[k].section,
     sequence_no |-> rows[k].sequence_no, slug |-> rows[k].slug,
     qr_code |-> rows[k].qr_code, title_ru |-> rows[k].title_ru,
     title_uz |-> rows[k].title_uz, title_en |-> rows[k].title_en,
     is_published |-> rows[k].is_published]

\* Exhibit.objects.filter(block=..., section=...)
GroupRows(b, s) == {k \in DOMAIN rows : rows[k].block = b /\ rows[k].section = s}

\* LastSequenceNo without the filter on block and section
LastSequenceNoAnyGroup(b, s) ==
    IF DOMAIN rows = {} THEN 0
    ELSE LET k == CHOOSE k \in DOMAIN rows :
                      \A j \in DOMAIN rows : rows[j].sequence_no <= rows[k].sequence_no
         IN  rows[k].sequence_no

\* .order_by("-sequence_no").first().sequence_no, 0 standing for "no row"
LastSequenceNo(b, s) ==
    IF GroupRows(b, s) = {} THEN 0
    ELSE LET k == CHOOSE k \in GroupRows(b, s) :
                      \A j \in GroupRows(b, s) : rows[j].sequence_no <= rows[k].sequence_no
         IN  rows[k].sequence_no

\* unique_together (block, section, sequence_no), checked against the other rows
UniqueTogetherOk(o) ==
    \A k \in DOMAIN rows \ {o.pk} :
        ~(rows[k].block = o.block /\ rows[k].section = o.section
          /\ rows[k].sequence_no = o.sequence_no)

\* slug = SlugField(unique=True), checked against the other rows
UniqueSlugOk(o) == \A k \in DOMAIN rows \ {o.pk} : rows[k].slug # o.slug

\* IntegrityOk of a table that declares no unique constraint
IntegrityOkUnconstrained(o) == TRUE

\* the unique constraints of the Exhibit table
IntegrityOk(o) == UniqueTogetherOk(o) /\ UniqueSlugOk(o)

RowOf(o) ==
    [block |-> o.block, section |-> o.section, sequence_no |-> o.sequence_no,
     slug |-> o.slug, qr_code |-> o.qr_code, title_ru |-> o.title_ru,
     title_uz |-> o.title_uz, title_en |-> o.title_en, is_published |-> o.is_published]

Remove(seq, k) == SelectSeq(seq, LAMBDA x : x # k)

(* ------------------------------- Init --------------------------------- *)

\* no request was made yet
NoRequest == [view |-> "none"]
NoResponse == [status |-> "none"]

InitTables ==
    /\ codeNum = <<1, 1>>
    /\ rows = <<>>
    /\ createdOrder = <<>>
    /\ nextPk = 1
    /\ files = EmptyBag
    /\ obj = [p \in Procs |-> NewInstance(None, None)]
    /\ pc = [p \in Procs |-> "idle"]
    /\ outcome = [p \in Procs |-> "none"]
    /\ museums = Museums
    /\ blocks = Blocks
    /\ sections = Sections
    /\ photos = <<>>
    /\ nextPhotoId = 1

Init ==
    /\ InitTables
    /\ request = NoRequest
    /\ response = NoResponse

(* ------------------------------ actions ------------------------------ *)

\* Exhibit(block=b, section=s): a request builds a new instance, not yet saved
New(p, b, s) ==
    /\ pc[p] = "idle"
    /\ nextPk <= MaxPk
    /\ obj' = [obj EXCEPT ![p] = NewInstance(b, s)]
    /\ pc' = [pc EXCEPT ![p] = "fresh"]
    /\ UNCHANGED <<codeNum, rows, createdOrder, nextPk, files, outcome>>
    /\ UNCHANGED <<catalogVars, photoVars, viewVars>>

\* a request reads the instance of a persisted exhibit, to edit it
Load(p, k) ==
    /\ pc[p] = "idle"
    /\ k \in DOMAIN rows
    /\ obj' = [obj EXCEPT ![p] = LoadInstance(k)]
    /\ pc' = [pc EXCEPT ![p] = "fresh"]
    /\ UNCHANGED <<codeNum, rows, createdOrder, nextPk, files, outcome>>
    /\ UNCHANGED <<catalogVars, photoVars, viewVars>>

\* instance.block = b; instance.section = s on the instance that was read
SetBlockSection(p, b, s) ==
    /\ pc[p] = "fresh"
    /\ obj[p].pk # None
    /\ <<b, s>> # <<obj[p].block, obj[p].section>>
    /\ obj' = [obj EXCEPT ![p] = [@ EXCEPT !.block = b, !.section = s]]
    /\ UNCHANGED <<codeNum, rows, createdOrder, nextPk, files, pc, outcome>>
    /\ UNCHANGED <<catalogVars, photoVars, viewVars>>

\* Exhibit._ensure_slug_and_sequence, the sequence_no part
EnsureSequence(o) ==
    IF o.sequence_no = 0
    THEN LET last == LastSequenceNo(o.block, o.section)
         IN  [o EXCEPT !.sequence_no = IF last = 0 THEN 1 ELSE last + 1]
    ELSE o

\* Exhibit._ensure_slug_and_sequence
_ensure_slug_and_sequence(o) ==
    LET o1 == EnsureSequence(o)
    IN  [o1 EXCEPT !.slug = _build_slug(o1)]

\* NeedsQr of a save that generates the QR every time
NeedsQrAlways(o) == TRUE

\* Exhibit.save: "if not self.qr_code"
NeedsQr(o) == o.qr_code = NoFile

\* Exhibit.save up to the call of super().save()
SaveBegin(p) ==
    /\ pc[p] = "fresh"
    /\ IF obj[p].block = None \/ obj[p].section = None
       THEN \* self.block.museum or self.section.code_num on None
            /\ obj' = [obj EXCEPT ![p] = EnsureSequence(obj[p])]
            /\ pc' = [pc EXCEPT ![p] = "done"]
            /\ outcome' = [outcome EXCEPT ![p] = "AttributeError"]
            /\ UNCHANGED files
       ELSE LET o2 == _ensure_slug_and_sequence(obj[p])
                generate == NeedsQr(o2)
                o3 == IF generate THEN [o2 EXCEPT !.qr_code = _generate_qr(o2)] ELSE o2
            IN  /\ generate => BagCardinality(files) < MaxFiles
                /\ files' = IF generate THEN files (+) SetToBag({o3.qr_code}) ELSE files
                /\ obj' = [obj EXCEPT ![p] = o3]
                /\ pc' = [pc EXCEPT ![p] = "saving"]
                /\ UNCHANGED outcome
    /\ UNCHANGED <<codeNum, rows, createdOrder, nextPk>>
    /\ UNCHANGED <<catalogVars, photoVars, viewVars>>

\* super().save(): UPDATE the row of the instance's pk, INSERT when there is none
SaveWrite(p) ==
    /\ pc[p] = "saving"
    /\ pc' = [pc EXCEPT ![p] = "done"]
    /\ IF ~IntegrityOk(obj[p])
       THEN /\ outcome' = [outcome EXCEPT ![p] = "IntegrityError"]
            /\ UNCHANGED <<rows, createdOrder, nextPk, obj>>
       ELSE /\ outcome' = [outcome EXCEPT ![p] = "ok"]
            /\ IF obj[p].pk = None
               THEN /\ nextPk <= MaxPk
                    /\ rows' = (nextPk :> RowOf(obj[p])) @@ rows
                    /\ createdOrder' = Append(createdOrder, nextPk)
                    /\ obj' = [obj EXCEPT ![p].pk = nextPk]
                    /\ nextPk' = nextPk + 1
               ELSE /\ rows' = (obj[p].pk :> RowOf(obj[p])) @@ rows
                    /\ createdOrder' = IF obj[p].pk \in DOMAIN rows THEN createdOrder
                                       ELSE Append(createdOrder, obj[p].pk)
                    /\ UNCHANGED <<nextPk, obj>>
    /\ UNCHANGED <<codeNum, files>>
    /\ UNCHANGED <<catalogVars, photoVars, viewVars>>

\* the request ends, and its instance with it
Drop(p) ==
    /\ pc[p] = "done"
    /\ obj' = [obj EXCEPT ![p] = NewInstance(None, None)]
    /\ pc' = [pc EXCEPT ![p] = "idle"]
    /\ outcome' = [outcome EXCEPT ![p] = "none"]
    /\ UNCHANGED <<codeNum, rows, createdOrder, nextPk, files>>
    /\ UNCHANGED <<catalogVars, photoVars, viewVars>>

\* an administrator deletes the exhibit (its files stay in the storage);
\* ExhibitPhoto.exhibit is on_delete=CASCADE
Delete(k) ==
    /\ k \in DOMAIN rows
    /\ rows' = [j \in DOMAIN rows \ {k} |-> rows[j]]
    /\ createdOrder' = Remove(createdOrder, k)
    /\ photos' = [i \in {j \in DOMAIN photos : photos[j].exhibit # k} |-> photos[i]]
    /\ UNCHANGED <<codeNum, nextPk, files, obj, pc, outcome>>
    /\ UNCHANGED <<catalogVars, nextPhotoId, viewVars>>

\* ExhibitAdmin.regenerate_qr, one exhibit of the queryset
regenerate_qr(p, k) ==
    /\ pc[p] = "idle"
    /\ k \in DOMAIN rows
    /\ LET ex == LoadInstance(k)
           deleted == files (-) SetToBag({ex.qr_code})
           ex1 == [ex EXCEPT !.qr_code = _generate_qr(ex)]
           \* save(update_fields=["qr_code"])
           ex2 == _ensure_slug_and_sequence(ex1)
       IN  /\ BagCardinality(deleted) < MaxFiles
           /\ files' = deleted (+) SetToBag({ex1.qr_code})
           /\ rows' = [rows EXCEPT ![k].qr_code = ex2.qr_code]
           /\ obj' = [obj EXCEPT ![p] = ex2]
    /\ pc' = [pc EXCEPT ![p] = "done"]
    /\ outcome' = [outcome EXCEPT ![p] = "ok"]
    /\ UNCHANGED <<codeNum, createdOrder, nextPk>>
    /\ UNCHANGED <<catalogVars, photoVars, viewVars>>

\* an administrator edits MuseumSection.code_num
EditSectionCode(s, n) ==
    /\ codeNum[s] # n
    /\ codeNum' = [codeNum EXCEPT ![s] = n]
    /\ UNCHANGED <<rows, createdOrder, nextPk, files, obj, pc, outcome>>
    /\ UNCHANGED <<catalogVars, photoVars, viewVars>>

(* --------------------------- specifications --------------------------- *)

\* concurrent requests create exhibits, administrators delete them
Next ==
    \/ \E p \in Procs, bs \in Places : New(p, bs[1], bs[2])
    \/ \E p \in Procs : SaveBegin(p)
    \/ \E p \in Procs : SaveWrite(p)
    \/ \E p \in Procs : Drop(p)
    \/ \E k \in 1..MaxPk : Delete(k)

Spec == Init /\ [][Next]_vars

\* no exhibit was created yet, and no request is about to create one
NoExhibitYet == nextPk = 1 /\ \A q \in Procs : pc[q] = "idle"

\* the first exhibit of the table under concurrent admin requests
NextAdmin ==
    \/ \E p \in Procs, bs \in Groups : NoExhibitYet /\ New(p, bs[1], bs[2])
    \/ \E p \in Procs, k \in 1..MaxPk : Load(p, k)
    \/ \E p \in Procs, bs \in Groups : SetBlockSection(p, bs[1], bs[2])
    \/ \E p \in Procs : SaveBegin(p)
    \/ \E p \in Procs : SaveWrite(p)
    \/ \E p \in Procs : Drop(p)
    \/ \E k \in 1..MaxPk : Delete(k)
    \/ \E p \in Procs, k \in 1..MaxPk : regenerate_qr(p, k)
    \/ \E e \in CodeEdits : EditSectionCode(e[1], e[2])

SpecAdmin == Init /\ [][NextAdmin]_vars

(* -------------------------- language of display ----------------------- *)

\* Lang = Literal["ru", "uz", "en", "ar"]
Supported == {"ru", "uz", "en", "ar"}

\* Python's None where a language code is expected
NoLanguage == "<None>"

\* the explicit language parameters a caller passes
UrlLangs == {NoLanguage, "", "ru", "uz", "en", "ar", "RU", "fr", "en-us"}

\* what get_language() returns: None, or the code of the active language
ActiveLangs == {NoLanguage, "ru", "uz", "en", "ar", "fr", "en-us", "uz-cyrl"}

UpperCase == "ABCDEFGHIJKLMNOPQRSTUVWXYZ"
LowerCase == "abcdefghijklmnopqrstuvwxyz"

\* str.lower() on one character
LowerChar(c) ==
    IF \E i \in 1..26 : SubSeq(UpperCase, i, i) = c
    THEN LET i == CHOOSE i \in 1..26 : SubSeq(UpperCase, i, i) = c
         IN  SubSeq(LowerCase, i, i)
    ELSE c

\* str.lower()
RECURSIVE Lower(_)
Lower(str) ==
    IF str = "" THEN "" ELSE LowerChar(SubSeq(str, 1, 1)) \o Lower(SubSeq(str, 2, Len(str)))

\* _resolve_lang that returns any explicit parameter as it is
_resolve_lang_unchecked(url_lang, active) ==
    IF url_lang # NoLanguage /\ url_lang # "" THEN url_lang
    ELSE LET lang == Lower(IF active = NoLanguage \/ active = "" THEN "ru" ELSE active)
         IN  IF lang \in Supported THEN lang ELSE "ru"

\* _resolve_lang(request, url_lang), active being get_language()
_resolve_lang(url_lang, active) ==
    IF url_lang \in Supported THEN url_lang
    ELSE LET lang == Lower(IF active = NoLanguage \/ active = "" THEN "ru" ELSE active)
         IN  IF lang \in Supported THEN lang ELSE "ru"

InitLang ==
    /\ InitTables
    /\ request \in [view : {"_resolve_lang"}, url_lang : UrlLangs, active : ActiveLangs]
    /\ response = NoResponse

\* a call of _resolve_lang
ResolveLang ==
    /\ request.view = "_resolve_lang"
    /\ response = NoResponse
    /\ response' = [status |-> "returned",
                    value |-> _resolve_lang(request.url_lang, request.active)]
    /\ UNCHANGED <<exhibitVars, catalogVars, photoVars, request>>

NextLang == ResolveLang

SpecLang == InitLang /\ [][NextLang]_vars

(* --------------------------- localized content ------------------------ *)

\* the texts and audio files of the exhibits shown: every field is empty or set
ExhibitContents ==
    [slug : {"ISC-REN2-1.0001"},
     title_ru : {"", "Statuya"}, title_uz : {"", "Haykal"},
     title_en : {"", "Statue"}, title_ar : {"", "Timthal"},
     sub_title_ru : {"", "sub ru"}, sub_title_uz : {"", "sub uz"},
     sub_title_en : {"", "sub en"}, sub_title_ar : {"", "sub ar"},
     description_ru : {"", "desc ru"}, description_uz : {"", "desc uz"},
     description_en : {"", "desc en"}, description_ar : {"", "desc ar"},
     audio_ru : {"", "ru.mp3"}, audio_uz : {"", "uz.mp3"}, audio_en : {"", "en.mp3"}]

\* Python's "a or b" on strings and file fields, "" being the empty one
Or(a, b) == IF a # "" THEN a ELSE b

\* LocalizedTitle with the chain of ru for every language
LocalizedTitleRuChain(exhibit, lang) ==
    Or(exhibit.title_ru, Or(exhibit.title_en, Or(exhibit.title_uz, exhibit.slug)))

\* LocalizedTitle whose chains end with the empty string
LocalizedTitleNoSlug(exhibit, lang) ==
    CASE lang = "ru" -> Or(exhibit.title_ru, Or(exhibit.title_en, Or(exhibit.title_uz, "")))
      [] lang = "uz" -> Or(exhibit.title_uz, Or(exhibit.title_ru, Or(exhibit.title_en, "")))
      [] lang = "en" -> Or(exhibit.title_en, Or(exhibit.title_ru, Or(exhibit.title_uz, "")))
      [] lang = "ar" -> Or(exhibit.title_ar, Or(exhibit.title_ru, Or(exhibit.title_uz, "")))

\* _localized_content: title
LocalizedTitle(exhibit, lang) ==
    CASE lang = "ru" -> Or(exhibit.title_ru, Or(exhibit.title_en, Or(exhibit.title_uz, exhibit.slug)))
      [] lang = "uz" -> Or(exhibit.title_uz, Or(exhibit.title_ru, Or(exhibit.title_en, exhibit.slug)))
      [] lang = "en" -> Or(exhibit.title_en, Or(exhibit.title_ru, Or(exhibit.title_uz, exhibit.slug)))
      [] lang = "ar" -> Or(exhibit.title_ar, Or(exhibit.title_ru, Or(exhibit.title_uz, exhibit.slug)))

\* LocalizedSubtitle without the description in its chains
LocalizedSubtitleNoDescription(exhibit, lang) ==
    CASE lang = "ru" -> Or(exhibit.sub_title_ru, Or(exhibit.sub_title_en,
                            Or(exhibit.sub_title_uz, exhibit.slug)))
      [] lang = "uz" -> Or(exhibit.sub_title_uz, Or(exhibit.sub_title_ru,
                            Or(exhibit.sub_title_en, exhibit.slug)))
      [] lang = "en" -> Or(exhibit.sub_title_en, Or(exhibit.sub_title_ru,
                            Or(exhibit.sub_title_uz, exhibit.slug)))
      [] lang = "ar" -> Or(exhibit.sub_title_ar, Or(exhibit.sub_title_ru,
                            Or(exhibit.sub_title_uz, exhibit.slug)))

\* _localized_content: subtitle
LocalizedSubtitle(exhibit, lang) ==
    CASE lang = "ru" -> Or(exhibit.sub_title_ru, Or(exhibit.sub_title_en,
                            Or(exhibit.sub_title_uz, Or(exhibit.description_ru, exhibit.slug))))
      [] lang = "uz" -> Or(exhibit.sub_title_uz, Or(exhibit.sub_title_ru,
                            Or(exhibit.sub_title_en, Or(exhibit.description_uz, exhibit.slug))))
      [] lang = "en" -> Or(exhibit.sub_title_en, Or(exhibit.sub_title_ru,
                            Or(exhibit.sub_title_uz, Or(exhibit.description_en, exhibit.slug))))
      [] lang = "ar" -> Or(exhibit.sub_title_ar, Or(exhibit.sub_title_ru,
                            Or(exhibit.sub_title_uz, Or(exhibit.description_ar, exhibit.slug))))

\* _localized_content: description
LocalizedDescription(exhibit, lang) ==
    CASE lang = "ru" -> Or(exhibit.description_ru, Or(exhibit.description_en,
                            Or(exhibit.description_uz, "")))
      [] lang = "uz" -> Or(exhibit.description_uz, Or(exhibit.description_ru,
                            Or(exhibit.description_en, "")))
      [] lang = "en" -> Or(exhibit.description_en, Or(exhibit.description_ru,
                            Or(exhibit.description_uz, "")))
      [] lang = "ar" -> Or(exhibit.description_ar, Or(exhibit.description_ru,
                            Or(exhibit.description_uz, "")))

\* no audio: audio_url = None
NoAudio == [url_of |-> ""]

\* _localized_content: audio_url (url_of: the file whose url is returned)
LocalizedAudio(exhibit, lang) ==
    LET audio_field ==
            CASE lang = "ru" -> Or(exhibit.audio_ru, Or(exhibit.audio_en, exhibit.audio_uz))
              [] lang = "uz" -> Or(exhibit.audio_uz, Or(exhibit.audio_ru, exhibit.audio_en))
              [] lang = "en" -> Or(exhibit.audio_en, Or(exhibit.audio_ru, exhibit.audio_uz))
              [] lang = "ar" -> Or(exhibit.audio_ru, Or(exhibit.audio_en, exhibit.audio_uz))
    IN  IF audio_field # "" THEN [url_of |-> audio_field] ELSE NoAudio

\* _localized_content(exhibit, lang)
_localized_content(exhibit, lang) ==
    [title |-> LocalizedTitle(exhibit, lang),
     subtitle |-> LocalizedSubtitle(exhibit, lang),
     description |-> LocalizedDescription(exhibit, lang),
     audio_url |-> LocalizedAudio(exhibit, lang)]

InitContent ==
    /\ InitTables
    /\ request \in [view : {"_localized_content"}, exhibit : ExhibitContents, lang : Supported]
    /\ response = NoResponse

\* a call of _localized_content
LocalizedContent ==
    /\ request.view = "_localized_content"
    /\ response = NoResponse
    /\ response' = [status |-> "returned",
                    value |-> _localized_content(request.exhibit, request.lang)]
    /\ UNCHANGED <<exhibitVars, catalogVars, photoVars, request>>

NextContent == LocalizedContent

SpecContent == InitContent /\ [][NextContent]_vars

(* ------------------------- photos and the catalog --------------------- *)

\* frame_index = None
NoIndex == -1

\* the frame_index values submitted with a photo
FrameIndexes == {NoIndex, 0, 1, 5}

\* KIND_CHOICES
Kinds == {"frame", "gallery"}

\* Model.clean_fields on frame_index: MinValueValidator(1) runs on every value
\* but None; the result is the set of fields in error
clean_fields(photo) ==
    IF photo.frame_index # NoIndex /\ photo.frame_index < 1 THEN {"frame_index"} ELSE {}

\* clean that accepts a frame without frame_index
clean_unchecked(photo) ==
    [errors |-> {},
     photo |-> IF photo.kind = "gallery" THEN [photo EXCEPT !.frame_index = NoIndex]
               ELSE photo]

\* ExhibitPhoto.clean: the fields in error, and the instance as clean leaves it
clean(photo) ==
    IF photo.kind = "frame" /\ (photo.frame_index = NoIndex \/ photo.frame_index = 0)
    THEN [errors |-> {"frame_index"}, photo |-> photo]
    ELSE [errors |-> {},
          photo |-> IF photo.kind = "gallery" THEN [photo EXCEPT !.frame_index = NoIndex]
                    ELSE photo]

\* Model.full_clean: clean_fields, then clean, the errors of both raised together
full_clean(photo) ==
    [errors |-> clean_fields(photo) \cup clean(photo).errors, photo |-> clean(photo).photo]

\* UniqueFrameOk of a table without the constraint
UniqueFrameOkUnconstrained(photo, id) == TRUE

\* uniq_360_frame_per_exhibit: (exhibit, frame_index) unique where kind = "frame"
UniqueFrameOk(photo, id) ==
    photo.kind = "frame"
        => \A i \in DOMAIN photos \ {id} :
               ~(photos[i].kind = "frame" /\ photos[i].exhibit = photo.exhibit
                 /\ photos[i].frame_index = photo.frame_index)

\* no request is between its read and its write
Idle == \A p \in Procs : pc[p] = "idle"

\* ExhibitPhoto(exhibit=e, kind=kind, frame_index=index), full_clean(), save():
\* the inline forms of the admin and the import command
CreatePhoto(e, kind, index) ==
    /\ Idle
    /\ e \in DOMAIN rows
    /\ request' = [view |-> "create_photo", exhibit |-> e, kind |-> kind,
                   frame_index |-> index]
    /\ LET cleaned == full_clean([exhibit |-> e, kind |-> kind, frame_index |-> index])
       IN  IF cleaned.errors # {}
           THEN /\ response' = [status |-> "ValidationError", fields |-> cleaned.errors]
                /\ UNCHANGED photoVars
           ELSE IF ~UniqueFrameOk(cleaned.photo, nextPhotoId)
           THEN /\ response' = [status |-> "uniq_360_frame_per_exhibit"]
                /\ UNCHANGED photoVars
           ELSE /\ nextPhotoId <= MaxPhotos
                /\ photos' = (nextPhotoId :> cleaned.photo) @@ photos
                /\ nextPhotoId' = nextPhotoId + 1
                /\ response' = [status |-> "ok", id |-> nextPhotoId]
    /\ UNCHANGED <<exhibitVars, catalogVars>>

\* ExhibitPhotoFrameForm on a frame the inline shows: another frame_index
EditFrameIndex(id, index) ==
    /\ Idle
    /\ id \in DOMAIN photos
    /\ photos[id].kind = "frame"
    /\ request' = [view |-> "edit_photo", id |-> id, frame_index |-> index]
    /\ LET cleaned == full_clean([photos[id] EXCEPT !.frame_index = index])
       IN  IF cleaned.errors # {}
           THEN /\ response' = [status |-> "ValidationError", fields |-> cleaned.errors]
                /\ UNCHANGED photos
           ELSE IF ~UniqueFrameOk(cleaned.photo, id)
           THEN /\ response' = [status |-> "uniq_360_frame_per_exhibit"]
                /\ UNCHANGED photos
           ELSE /\ photos' = [photos EXCEPT ![id] = cleaned.photo]
                /\ response' = [status |-> "ok", id |-> id]
    /\ UNCHANGED <<exhibitVars, catalogVars, nextPhotoId>>

\* an administrator deletes a photo in the inline
DeletePhoto(id) ==
    /\ Idle
    /\ id \in DOMAIN photos
    /\ photos' = [i \in DOMAIN photos \ {id} |-> photos[i]]
    /\ request' = [view |-> "delete_photo", id |-> id]
    /\ response' = [status |-> "ok", id |-> id]
    /\ UNCHANGED <<exhibitVars, catalogVars, nextPhotoId>>

\* import_exhibit_gallery_webp for one exhibit with n files: its gallery photos
\* are deleted and n gallery photos are created
ImportGallery(e, n) ==
    /\ Idle
    /\ e \in DOMAIN rows
    /\ nextPhotoId + n - 1 <= MaxPhotos
    /\ LET kept == {i \in DOMAIN photos :
                        ~(photos[i].exhibit = e /\ photos[i].kind = "gallery")}
           created == nextPhotoId..(nextPhotoId + n - 1)
           photo == full_clean([exhibit |-> e, kind |-> "gallery",
                                frame_index |-> NoIndex]).photo
       IN  photos' = [i \in kept \cup created |-> IF i \in created THEN photo ELSE photos[i]]
    /\ nextPhotoId' = nextPhotoId + n
    /\ request' = [view |-> "import_gallery", exhibit |-> e, files |-> n]
    /\ response' = [status |-> "ok", id |-> nextPhotoId]
    /\ UNCHANGED <<exhibitVars, catalogVars>>

\* the sections deleted with the blocks bs: MuseumSection.museum_block is CASCADE
SectionsOfBlocks(bs) == {s \in sections : sectionBlock[s] \in bs}

\* Exhibit.block and Exhibit.section are on_delete=PROTECT
Protected(bs, ss) ==
    \E k \in DOMAIN rows : rows[k].block \in bs \/ rows[k].section \in ss

\* DeleteMuseum whose collector ignores on_delete=PROTECT
DeleteMuseumUnprotected(m) ==
    /\ Idle
    /\ m \in museums
    /\ request' = [view |-> "delete_museum", museum |-> m]
    /\ LET bs == {b \in blocks : blockMuseum[b] = m}
           ss == {s \in sections : sectionMuseum[s] = m} \cup SectionsOfBlocks(bs)
       IN  /\ museums' = museums \ {m}
           /\ blocks' = blocks \ bs
           /\ sections' = sections \ ss
           /\ response' = [status |-> "ok"]
    /\ UNCHANGED <<exhibitVars, photoVars>>

\* an administrator deletes a museum: MuseumBlock.museum and MuseumSection.museum
\* are on_delete=CASCADE
DeleteMuseum(m) ==
    /\ Idle
    /\ m \in museums
    /\ request' = [view |-> "delete_museum", museum |-> m]
    /\ LET bs == {b \in blocks : blockMuseum[b] = m}
           ss == {s \in sections : sectionMuseum[s] = m} \cup SectionsOfBlocks(bs)
       IN  IF Protected(bs, ss)
           THEN /\ response' = [status |-> "ProtectedError"]
                /\ UNCHANGED catalogVars
           ELSE /\ museums' = museums \ {m}
                /\ blocks' = blocks \ bs
                /\ sections' = sections \ ss
                /\ response' = [status |-> "ok"]
    /\ UNCHANGED <<exhibitVars, photoVars>>

\* an administrator deletes a block
DeleteBlock(b) ==
    /\ Idle
    /\ b \in blocks
    /\ request' = [view |-> "delete_block", block |-> b]
    /\ LET ss == SectionsOfBlocks({b})
       IN  IF Protected({b}, ss)
           THEN /\ response' = [status |-> "ProtectedError"]
                /\ UNCHANGED catalogVars
           ELSE /\ blocks' = blocks \ {b}
                /\ sections' = sections \ ss
                /\ response' = [status |-> "ok"]
                /\ UNCHANGED museums
    /\ UNCHANGED <<exhibitVars, photoVars>>

\* the administrator creates an exhibit in a section that exists
NewOwner(b, s) ==
    /\ nextPk <= MaxOwners
    /\ b \in blocks
    /\ s \in sections
    /\ New(1, b, s)

\* one administrator at a time manages exhibits and their photos
NextPhotos ==
    \/ \E bs \in Groups : NewOwner(bs[1], bs[2])
    \/ SaveBegin(1)
    \/ SaveWrite(1)
    \/ Drop(1)
    \/ \E k \in 1..MaxOwners : Idle /\ Delete(k)
    \/ \E e \in 1..MaxOwners, kind \in Kinds, index \in FrameIndexes :
            CreatePhoto(e, kind, index)
    \/ \E id \in 1..MaxPhotos, index \in FrameIndexes : EditFrameIndex(id, index)
    \/ \E id \in 1..MaxPhotos : DeletePhoto(id)
    \/ \E e \in 1..MaxOwners, n \in 1..2 : ImportGallery(e, n)

SpecPhotos == Init /\ [][NextPhotos]_vars

\* one administrator at a time manages the catalog, exhibits and their photos
NextCatalog ==
    \/ \E bs \in Groups : NewOwner(bs[1], bs[2])
    \/ SaveBegin(1)
    \/ SaveWrite(1)
    \/ Drop(1)
    \/ \E k \in 1..MaxOwners : Idle /\ Delete(k)
    \/ \E e \in 1..MaxOwners : CreatePhoto(e, "gallery", NoIndex)
    \/ \E e \in 1..MaxOwners : CreatePhoto(e, "frame", 1)
    \/ \E m \in Museums : DeleteMuseum(m)
    \/ \E b \in Blocks : DeleteBlock(b)

SpecCatalog == Init /\ [][NextCatalog]_vars

(* ----------------------------- public views -------------------------- *)

\* the fields class Exhibit declares
ExhibitFields ==
    {"id", "block", "section", "slug", "sequence_no", "qr_code",
     "title_ru", "title_uz", "title_en", "sub_title_ru", "sub_title_uz", "sub_title_en",
     "description_ru", "description_uz", "description_en",
     "title_ar", "sub_title_ar", "description_ar",
     "audio_ru", "audio_uz", "audio_en", "single_image", "is_3d", "frames_required",
     "is_published", "created_at", "updated_at"}

\* the titles an administrator gives an exhibit
Titles ==
    {[title_ru |-> "Statuya", title_uz |-> "Haykal", title_en |-> "Statue"],
     [title_ru |-> "Vaza", title_uz |-> "", title_en |-> ""]}

\* the admin form sets the titles and is_published of the instance
SetFields(p, titles, published) ==
    /\ pc[p] = "fresh"
    /\ <<titles.title_ru, published>> # <<obj[p].title_ru, obj[p].is_published>>
    /\ obj' = [obj EXCEPT ![p] = [@ EXCEPT !.title_ru = titles.title_ru,
                                            !.title_uz = titles.title_uz,
                                            !.title_en = titles.title_en,
                                            !.is_published = published]]
    /\ UNCHANGED <<codeNum, rows, createdOrder, nextPk, files, pc, outcome>>
    /\ UNCHANGED <<catalogVars, photoVars, viewVars>>

\* str.strip() of the spaces
RECURSIVE Strip(_)
Strip(str) ==
    IF str = "" THEN ""
    ELSE IF SubSeq(str, 1, 1) = " " THEN Strip(SubSeq(str, 2, Len(str)))
    ELSE IF SubSeq(str, Len(str), Len(str)) = " " THEN Strip(SubSeq(str, 1, Len(str) - 1))
    ELSE str

\* the lookup icontains
IContains(text, query) ==
    LET t == Lower(text)
        qr == Lower(query)
    IN  \E i \in 1..(Len(t) - Len(qr) + 1) : SubSeq(t, i, i + Len(qr) - 1) = qr

\* the lookup iexact
IExact(text, query) == Lower(text) = Lower(query)

\* int() of a primary key in a query string; None when it is not a number
ParseId(str) ==
    CASE str = "1" -> 1
      [] str = "2" -> 2
      [] str = "3" -> 3
      [] OTHER -> None

\* IsPublished of a query without the filter
IsPublishedAny(k) == TRUE

\* .filter(is_published=True)
IsPublished(k) == rows[k].is_published

\* ExhibitListView.get_queryset: the exhibits of the page, in any order
get_queryset(museum_slug, q, block, section) ==
    LET qs0 == {k \in DOMAIN rows : IsPublished(k)}
        qs1 == IF museum_slug # ""
               THEN {k \in qs0 : /\ rows[k].block # None
                                 /\ IExact(museumSlug[blockMuseum[rows[k].block]], museum_slug)}
               ELSE qs0
        query == Strip(q)
        qs2 == IF query # ""
               THEN {k \in qs1 : \/ IContains(rows[k].title_ru, query)
                                 \/ IContains(rows[k].title_uz, query)
                                 \/ IContains(rows[k].title_en, query)
                                 \/ IContains(rows[k].slug, query)}
               ELSE qs1
        block_id == Strip(block)
        qs3 == IF block_id # "" THEN {k \in qs2 : rows[k].block = ParseId(block_id)} ELSE qs2
        section_id == Strip(section)
        qs4 == IF section_id # "" THEN {k \in qs3 : rows[k].section = ParseId(section_id)}
               ELSE qs3
    IN  IF \/ block_id # "" /\ ParseId(block_id) = None
           \/ section_id # "" /\ ParseId(section_id) = None
        THEN [status |-> "ValueError"]
        ELSE [status |-> "200", exhibits |-> qs4]

\* the query strings and URL arguments of the list page
ListRequests ==
    [view : {"exhibit_list"}, museum_slug : {"", "isc", "NMU"}, q : {"", " stat "},
     block : {"", "1", "x"}, section : {"", "1"}]

\* GET of the exhibit list; a view reads the committed tables only, so a request
\* is taken between the requests of the administrators
ExhibitListView(req) ==
    /\ Idle
    /\ request' = req
    /\ response' = get_queryset(req.museum_slug, req.q, req.block, req.section)
    /\ UNCHANGED <<exhibitVars, catalogVars, photoVars>>

\* get_object_or_404(Exhibit, slug=slug, is_published=True): the primary keys found
get_object_or_404(slug) == {k \in DOMAIN rows : rows[k].slug = slug /\ IsPublished(k)}

\* the URL arguments of the detail page
DetailRequests ==
    [view : {"exhibit_detail_qr"}, museum_code : {"ISC", "isc", "NMU"},
     exhibit_code : {"ISC-REN2-1.0001", "NMU-ANT1-1.0001", "none"}]

\* ExhibitDetailByCodesView.get
ExhibitDetailByCodesView(req) ==
    /\ Idle
    /\ request' = req
    /\ LET found == get_object_or_404(req.exhibit_code)
       IN  IF found = {} THEN response' = [status |-> "404"]
           ELSE LET ex == CHOOSE k \in found : TRUE
                IN  IF rows[ex].block = None
                    THEN response' = [status |-> "AttributeError", attribute |-> "museum"]
                    ELSE IF museumSlug[blockMuseum[rows[ex].block]] # req.museum_code
                    THEN response' = [status |-> "404"]
                    ELSE IF "video" \notin ExhibitFields
                    THEN response' = [status |-> "AttributeError", attribute |-> "video"]
                    ELSE response' = [status |-> "200", exhibit |-> ex]
    /\ UNCHANGED <<exhibitVars, catalogVars, photoVars>>

\* the characters the path converter "slug" accepts
SlugChars ==
    {SubSeq(UpperCase, i, i) : i \in 1..26} \cup {SubSeq(LowerCase, i, i) : i \in 1..26}
        \cup {"0", "1", "2", "3", "4", "5", "6", "7", "8", "9", "-", "_"}

\* the path "exhibits/api/<slug:slug>/ci360.json" matches
SlugConverter(str) ==
    str # "" /\ \A i \in 1..Len(str) : SubSeq(str, i, i) \in SlugChars

\* the slugs asked of the manifest endpoint
ManifestRequests ==
    [view : {"exhibit_ci360_manifest"}, slug : {"ISC-REN2-1.0001", "NMU-ANT1-1.0001", "none"}]

\* ExhibitCi360Manifest.get, behind its URL pattern
ExhibitCi360Manifest(req) ==
    /\ Idle
    /\ request' = req
    /\ LET found == get_object_or_404(req.slug)
       IN  IF ~SlugConverter(req.slug) \/ found = {} THEN response' = [status |-> "404"]
           ELSE LET exhibit == CHOOSE k \in found : TRUE
                IN  response' =
                        [status |-> "200", exhibit |-> exhibit, slug |-> rows[exhibit].slug,
                         frames |-> Cardinality({i \in DOMAIN photos :
                                                    /\ photos[i].exhibit = exhibit
                                                    /\ photos[i].kind = "frame"})]
    /\ UNCHANGED <<exhibitVars, catalogVars, photoVars>>

\* an administrator creates, edits and deletes exhibits while visitors browse
NextPublic ==
    \/ \E bs \in Groups : NewOwner(bs[1], bs[2])
    \/ \E k \in 1..MaxOwners : Load(1, k)
    \/ \E titles \in Titles, published \in BOOLEAN : SetFields(1, titles, published)
    \/ SaveBegin(1)
    \/ SaveWrite(1)
    \/ Drop(1)
    \/ \E k \in 1..MaxOwners : Delete(k)
    \/ \E req \in ListRequests : ExhibitListView(req)
    \/ \E req \in DetailRequests : ExhibitDetailByCodesView(req)
    \/ \E req \in ManifestRequests : ExhibitCi360Manifest(req)

SpecPublic == Init /\ [][NextPublic]_vars

(* ------------------------ the admin action on a set ------------------ *)

\* save_qr_code of a save that writes every field of the instance
save_all_fields(ex) == RowOf(_ensure_slug_and_sequence(ex))

\* ex.save(update_fields=["qr_code"]): the row afterwards
save_qr_code(ex) ==
    [rows[ex.pk] EXCEPT !.qr_code = _ensure_slug_and_sequence(ex).qr_code]

\* the instance after ex._generate_qr()
Regenerated(k) == [LoadInstance(k) EXCEPT !.qr_code = _generate_qr(LoadInstance(k))]

\* the storage after the loop "for ex in queryset" of regenerate_qr
RECURSIVE RegeneratedFiles(_, _)
RegeneratedFiles(stored, queryset) ==
    IF queryset = {} THEN stored
    ELSE LET k == CHOOSE k \in queryset : \A j \in queryset : k <= j
             \* ex.qr_code.delete(save=False)
             deleted == stored (-) SetToBag({rows[k].qr_code})
         IN  RegeneratedFiles(deleted (+) SetToBag({Regenerated(k).qr_code}),
                              queryset \ {k})

\* ExhibitAdmin.regenerate_qr on the exhibits the administrator selected
regenerate_qr_queryset(queryset) ==
    /\ queryset # {}
    /\ queryset \subseteq DOMAIN rows
    /\ BagCardinality(RegeneratedFiles(files, queryset)) <= MaxFiles
    /\ files' = RegeneratedFiles(files, queryset)
    /\ rows' = [k \in DOMAIN rows |->
                    IF k \in queryset THEN save_qr_code(Regenerated(k)) ELSE rows[k]]
    /\ request' = [view |-> "regenerate_qr", queryset |-> queryset]
    /\ response' = [status |-> "ok", count |-> Cardinality(queryset)]
    /\ UNCHANGED <<codeNum, createdOrder, nextPk, obj, pc, outcome>>
    /\ UNCHANGED <<catalogVars, photoVars>>

\* an administrator creates, edits and renumbers; another regenerates QR codes
NextRegenerate ==
    \/ \E bs \in Groups : NewOwner(bs[1], bs[2])
    \/ \E k \in 1..MaxOwners : Load(1, k)
    \/ \E titles \in Titles, published \in BOOLEAN : SetFields(1, titles, published)
    \/ SaveBegin(1)
    \/ SaveWrite(1)
    \/ Drop(1)
    \/ EditSectionCode(1, 2)
    \/ \E queryset \in SUBSET (1..MaxOwners) : regenerate_qr_queryset(queryset)

SpecRegenerate == Init /\ [][NextRegenerate]_vars

(* ---------------------------- the admin form ------------------------- *)

\* the block and the section a POST of the change form carries (None: left empty)
FormData == [block : {None} \cup Blocks, section : {None} \cup Sections]

\* ExhibitAdminForm.__init__: the queryset of the field "section"
section_queryset(instance, data) ==
    LET block_id == IF data.block # None THEN data.block
                    ELSE IF instance.pk # None THEN instance.block
                    ELSE None
    IN  IF block_id # None THEN {s \in sections : sectionBlock[s] = block_id} ELSE {}

\* the fields of the form: block and section are required model choices
cleaned_data(instance, data) ==
    [block |-> IF data.block \in blocks THEN data.block ELSE None,
     section |-> IF data.section \in section_queryset(instance, data) THEN data.section
                 ELSE None]

\* form_errors of a form that validates nothing
form_errors_unchecked(instance, data) == {}

\* form.errors: the fields with an error after the fields and ExhibitAdminForm.clean
form_errors(instance, data) ==
    LET cleaned == cleaned_data(instance, data)
    IN  {f \in {"block", "section"} : cleaned[f] = None}
            \cup IF /\ cleaned.block # None
                    /\ cleaned.section # None
                    /\ sectionBlock[cleaned.section] # cleaned.block
                 THEN {"section"}
                 ELSE {}

\* the add view shows the form of a new exhibit
AddView(p) ==
    /\ pc[p] = "idle"
    /\ nextPk <= MaxOwners
    /\ obj' = [obj EXCEPT ![p] = NewInstance(None, None)]
    /\ pc' = [pc EXCEPT ![p] = "form"]
    /\ UNCHANGED <<codeNum, rows, createdOrder, nextPk, files, outcome>>
    /\ UNCHANGED <<catalogVars, photoVars, viewVars>>

\* the change view shows the form of exhibit k
ChangeView(p, k) ==
    /\ pc[p] = "idle"
    /\ k \in DOMAIN rows
    /\ obj' = [obj EXCEPT ![p] = LoadInstance(k)]
    /\ pc' = [pc EXCEPT ![p] = "form"]
    /\ UNCHANGED <<codeNum, rows, createdOrder, nextPk, files, outcome>>
    /\ UNCHANGED <<catalogVars, photoVars, viewVars>>

\* POST of the form: invalid, the page shows the errors; valid, the instance takes
\* the cleaned data and save_model calls obj.save()
SubmitForm(p, data) ==
    /\ pc[p] = "form"
    /\ request' = [view |-> "exhibit_form", pk |-> obj[p].pk,
                   block |-> data.block, section |-> data.section]
    /\ LET errors == form_errors(obj[p], data)
       IN  IF errors # {}
           THEN /\ response' = [status |-> "invalid", errors |-> errors]
                /\ pc' = [pc EXCEPT ![p] = "done"]
                /\ outcome' = [outcome EXCEPT ![p] = "ValidationError"]
                /\ UNCHANGED obj
           ELSE /\ response' = [status |-> "valid", errors |-> {}]
                /\ pc' = [pc EXCEPT ![p] = "fresh"]
                /\ obj' = [obj EXCEPT ![p] = [@ EXCEPT !.block = data.block,
                                                        !.section = data.section]]
                /\ UNCHANGED outcome
    /\ UNCHANGED <<codeNum, rows, createdOrder, nextPk, files>>
    /\ UNCHANGED <<catalogVars, photoVars>>

\* an administrator adds and changes exhibits through the form
NextForm ==
    \/ AddView(1)
    \/ \E k \in 1..MaxOwners : ChangeView(1, k)
    \/ \E data \in FormData : SubmitForm(1, data)
    \/ SaveBegin(1)
    \/ SaveWrite(1)
    \/ Drop(1)

SpecForm == Init /\ [][NextForm]_vars

(* -------------------------- the preview of the list ------------------ *)

MEDIA_URL == "/media/"

\* the exhibit whose preview is asked: is_3d and single_image as the admin set them
PreviewExhibits ==
    [pk : {1}, slug : {"ISC-REN2-1.0001"}, is_3d : BOOLEAN,
     single_image : {"", "exhibits/ISC-REN2-1.0001/single/single.jpg"}]

\* the file names frame_upload_to gave the images of the photos, by photo id
PhotoImages ==
    <<"exhibits/ISC-REN2-1.0001/gallery/a.webp", "exhibits/ISC-REN2-1.0001/gallery/b.webp",
      "exhibits/ISC-REN2-1.0001/gallery/c.webp", "exhibits/ISC-REN2-1.0001/gallery/d.webp",
      "exhibits/ISC-REN2-1.0001/gallery/e.webp">>

\* the tables of photos: by id, the exhibit, the kind, is_active and created_at
PhotoTables ==
    {[i \in DOMAIN f |-> [exhibit |-> f[i].exhibit, kind |-> f[i].kind,
                          is_active |-> f[i].is_active, created_at |-> f[i].created_at,
                          image |-> PhotoImages[i]]] :
        f \in UNION {[ids -> [exhibit : {1, 2}, kind : Kinds, is_active : BOOLEAN,
                              created_at : {1, 2}]] : ids \in SUBSET (1..MaxPhotos)}}

\* Exhibit.ci360_folder
ci360_folder(exhibit) == MEDIA_URL \o "exhibits/" \o exhibit.slug \o "/frames/"

\* Exhibit.ci360_filename_pattern with "{index}" replaced by index
ci360_filename(index) == "frame-" \o index \o ".webp"

\* Exhibit.has_single_image
has_single_image(exhibit) == exhibit.single_image # ""

\* FieldFile.url
Url(name) == MEDIA_URL \o name

\* gallery_qs of a query without the filter is_active=True
gallery_qs_inactive(exhibit, table) ==
    {i \in DOMAIN table : table[i].exhibit = exhibit.pk /\ table[i].kind = "gallery"}

\* Exhibit.gallery_qs: the ids of the queryset
gallery_qs(exhibit, table) ==
    {i \in DOMAIN table :
        /\ table[i].exhibit = exhibit.pk
        /\ table[i].is_active
        /\ table[i].kind = "gallery"}

\* .order_by("created_at", "id").first()
first_by_creation(qs, table) ==
    CHOOSE i \in qs :
        \A j \in qs : \/ table[i].created_at < table[j].created_at
                      \/ table[i].created_at = table[j].created_at /\ i <= j

\* Exhibit.first_frame_url
first_frame_url(exhibit, table) ==
    IF exhibit.is_3d THEN ci360_folder(exhibit) \o ci360_filename("001")
    ELSE IF gallery_qs(exhibit, table) # {}
    THEN Url(table[first_by_creation(gallery_qs(exhibit, table), table)].image)
    ELSE IF has_single_image(exhibit) THEN Url(exhibit.single_image)
    ELSE ""

InitPreview ==
    /\ InitTables
    /\ request \in [view : {"first_frame_url"}, exhibit : PreviewExhibits,
                    photos : PhotoTables]
    /\ response = NoResponse

\* a call of first_frame_url
FirstFrameUrl ==
    /\ request.view = "first_frame_url"
    /\ response = NoResponse
    /\ response' = [status |-> "returned",
                    value |-> first_frame_url(request.exhibit, request.photos)]
    /\ UNCHANGED <<exhibitVars, catalogVars, photoVars, request>>

NextPreview == FirstFrameUrl

SpecPreview == InitPreview /\ [][NextPreview]_vars

(* ---------------------- slugs over every catalog --------------------- *)

\* the catalogs the constraints of the models allow: two museums with distinct
\* slugs, two blocks with distinct (museum, slug), two sections of any block
\* with any code_num (MuseumSection has no constraint)
Catalogs ==
    {c \in [museum_slug : [1..2 -> {"A", "A-B"}],
            block_museum : [1..2 -> 1..2],
            block_slug : [1..2 -> {"C", "B-C"}],
            section_block : [1..2 -> 1..2],
            code_num : [1..2 -> {0, 1}]] :
        /\ c.museum_slug[1] # c.museum_slug[2]
        /\ <<c.block_museum[1], c.block_slug[1]>> # <<c.block_museum[2], c.block_slug[2]>>}

\* the (block, section, sequence_no) of an exhibit of the catalog: the section is
\* one of the block, as the admin form demands
Identities(c) ==
    {i \in [block : 1..2, section : 1..2, sequence_no : 1..2] :
        c.section_block[i.section] = i.block}

\* Exhibit._build_slug of an exhibit with this identity in this catalog
build_slug_in(c, i) ==
    SlugFormat(c.museum_slug[c.block_museum[i.block]], c.block_slug[i.block],
               c.code_num[i.section], i.sequence_no)

InitSlug ==
    /\ InitTables
    /\ \E c \in Catalogs : \E i \in Identities(c), j \in Identities(c) :
            request = [view |-> "create_exhibits", catalog |-> c, first |-> i, second |-> j]
    /\ response = NoResponse

\* the exhibit "first" is persisted, then the exhibit "second" is saved: the
\* INSERT is checked against unique_together and against the unique slug
CreateExhibits ==
    /\ request.view = "create_exhibits"
    /\ response = NoResponse
    /\ LET first == build_slug_in(request.catalog, request.first)
           second == build_slug_in(request.catalog, request.second)
       IN  response' = [first |-> first, second |-> second,
                        status |-> IF request.first = request.second
                                   THEN "IntegrityError: unique_together"
                                   ELSE IF first = second
                                   THEN "IntegrityError: slug"
                                   ELSE "ok"]
    /\ UNCHANGED <<exhibitVars, catalogVars, photoVars, request>>

NextSlug == CreateExhibits

SpecSlug == InitSlug /\ [][NextSlug]_vars

(* ------------------------------- claims ------------------------------ *)

\* a step of a public view: it reads the tables and answers
ViewStep(view) ==
    /\ UNCHANGED <<exhibitVars, catalogVars, photoVars>>
    /\ request'.view = view

\* C17: no public query returns an exhibit with is_published = False: the list
\* excludes it whatever the museum, free-text, block and section filters are, and
\* the detail page and the 360 manifest answer not-found for its slug
C17_PublishedOnly ==
    [][/\ ViewStep("exhibit_list") /\ response'.status = "200"
            => \A k \in response'.exhibits : rows[k].is_published
       /\ ViewStep("exhibit_detail_qr")
            => \A k \in DOMAIN rows :
                    rows[k].slug = request'.exhibit_code /\ ~rows[k].is_published
                        => response'.status = "404"
       /\ ViewStep("exhibit_ci360_manifest")
            => \A k \in DOMAIN rows :
                    rows[k].slug = request'.slug /\ ~rows[k].is_published
                        => response'.status = "404"]_vars

\* an unpublished exhibit of museum ISC is left out of that museum's list, which
\* shows the published one
C17_UnpublishedHidden ==
    /\ request.view = "exhibit_list"
    /\ request.museum_slug = "isc"
    /\ response.status = "200"
    /\ response.exhibits # {}
    /\ \E k \in DOMAIN rows :
            /\ ~rows[k].is_published
            /\ rows[k].block = 1
            /\ k \notin response.exhibits

SameGroup(r1, r2) == r1.block = r2.block /\ r1.section = r2.section

\* request p takes the step of Exhibit.save that precedes super().save()
BeginsSave(p) == pc[p] = "fresh" /\ pc'[p] \in {"saving", "done"}

\* request p takes the step super().save()
WritesSave(p) == pc[p] = "saving" /\ pc'[p] = "done"

\* C1: under any interleaving of concurrent saves no two persisted exhibits of
\* one (block, section) have the same sequence_no, and a save whose
\* (block, section, sequence_no) is taken by another row ends in an
\* IntegrityError that leaves the table as it was.
C1_UniqueSequenceNo ==
    /\ [](\A j, k \in DOMAIN rows :
            j # k /\ SameGroup(rows[j], rows[k])
                => rows[j].sequence_no # rows[k].sequence_no)
    /\ [][\A p \in Procs :
            (WritesSave(p) /\ \E k \in DOMAIN rows \ {obj[p].pk} :
                                 /\ SameGroup(rows[k], obj[p])
                                 /\ rows[k].sequence_no = obj[p].sequence_no)
                => rows' = rows /\ outcome'[p] = "IntegrityError"]_vars

\* two creations raced: one is persisted, the other was rejected with its number
C1_RaceRejected ==
    \E p \in Procs, k \in DOMAIN rows :
        /\ pc[p] = "done" /\ outcome[p] = "IntegrityError" /\ obj[p].pk = None
        /\ SameGroup(rows[k], obj[p]) /\ rows[k].sequence_no = obj[p].sequence_no

\* C2: the first save of an exhibit sets sequence_no to 1 when its (block, section)
\* has no persisted exhibit, and else to one more than the highest sequence_no
\* persisted in that group; the rows of other groups do not count.
C2_FirstSequenceNo ==
    [][\A p \in Procs :
        (BeginsSave(p) /\ obj[p].sequence_no = 0)
            => LET group == {k \in DOMAIN rows : SameGroup(rows[k], obj[p])}
                   n == obj'[p].sequence_no
               IN  IF group = {} THEN n = 1
                   ELSE /\ \E k \in group : n = rows[k].sequence_no + 1
                        /\ \A k \in group : rows[k].sequence_no < n]_vars

\* a first save computed 1 for a group without rows while another group has
\* rows up to 2, and a first save computed 2 in a group
C2_OtherGroupIgnored ==
    \E p \in Procs, j, k \in DOMAIN rows :
        /\ pc[p] = "saving" /\ obj[p].pk = None /\ obj[p].sequence_no = 1
        /\ ~SameGroup(rows[k], obj[p]) /\ rows[k].sequence_no = 2
        /\ SameGroup(rows[j], rows[k]) /\ rows[j].sequence_no = 1

\* C3: of two persisted exhibits of one (block, section), the one created
\* later has the strictly larger sequence_no.
C3_CreationOrder ==
    \A i, j \in 1..Len(createdOrder) :
        (i < j /\ SameGroup(rows[createdOrder[i]], rows[createdOrder[j]]))
            => rows[createdOrder[i]].sequence_no < rows[createdOrder[j]].sequence_no

\* C6 (as claimed): a save of an exhibit whose block or section is unset ends in
\* a validation error, with nothing persisted, no QR file and no sequence_no or
\* slug put on the instance.
C6_UnsetRejected ==
    \A p \in Procs :
        (pc[p] = "done" /\ (obj[p].block = None \/ obj[p].section = None))
            => /\ outcome[p] = "ValidationError"
               /\ obj[p].pk = None /\ obj[p].qr_code = NoFile
               /\ obj[p].sequence_no = 0 /\ obj[p].slug = ""

\* C7 (as claimed): a creation that met the uniqueness violation is retried, so a
\* creation (with block and section set) that is over has ended persisted.
C7_RaceRetried ==
    \A p \in Procs :
        (pc[p] = "done" /\ obj[p].block # None /\ obj[p].section # None)
            => outcome[p] = "ok" /\ obj[p].pk \in 1..(nextPk - 1)

\* C8 (as claimed): a save that failed leaves no QR file behind: every file of the
\* storage was written by a save that succeeded or is still before its write.
C8_AllOrNothing ==
    BagCardinality(files) = (nextPk - 1) + Cardinality({p \in Procs : pc[p] = "saving"})

(* the slug and the QR, checked against written-out texts *)

Digit == <<"1", "2", "3", "4", "5", "6", "7", "8", "9">>

\* "<museum slug>-<block slug>-<code_num>.<sequence_no on 4 digits>" for the
\* instance's block, section and sequence_no (code_num and sequence_no in 1..9)
ExpectedSlug(o) ==
    museumSlug[blockMuseum[o.block]] \o "-" \o blockSlug[o.block] \o "-"
        \o Digit[codeNum[o.section]] \o ".000" \o Digit[o.sequence_no]

\* request p ends a save that succeeded
EndsSaveOk(p) == pc[p] # "done" /\ pc'[p] = "done" /\ outcome'[p] = "ok"

\* C4 (as claimed): after every successful Exhibit.save the in-memory slug and the
\* persisted slug are both the slug built at that save.
C4_SlugAfterEverySave ==
    [][\A p \in Procs :
        EndsSaveOk(p) => /\ obj'[p].pk \in DOMAIN rows'
                         /\ rows'[obj'[p].pk].slug = obj'[p].slug]_vars

\* C4 (amended): the slug a save builds is
\* "<museum slug>-<block slug>-<code_num>.<sequence_no on 4 digits>" of the
\* instance's block, section and sequence_no (ISC, REN2, 1, 1 give
\* ISC-REN2-1.0001), and a successful save that writes all fields persists that
\* slug, the one its instance holds.
C4_SlugAfterFullSave ==
    /\ [](SlugFormat("ISC", "REN2", 1, 1) = "ISC-REN2-1.0001")
    /\ [][\A p \in Procs :
            (BeginsSave(p) /\ pc'[p] = "saving")
                => obj'[p].slug = ExpectedSlug(obj'[p])]_vars
    /\ [][\A p \in Procs :
            (WritesSave(p) /\ outcome'[p] = "ok")
                => /\ obj'[p].slug = obj[p].slug
                   /\ obj'[p].pk \in DOMAIN rows'
                   /\ rows'[obj'[p].pk].slug = obj'[p].slug]_vars

\* a full save of the exhibit, after its section was renumbered 2, is over
C4_SavedAfterRenumbering ==
    \E p \in Procs :
        /\ pc[p] = "done" /\ outcome[p] = "ok" /\ obj[p].pk \in DOMAIN rows
        /\ obj[p].slug = "ISC-REN2-2.0001" /\ rows[obj[p].pk].slug = "ISC-REN2-2.0001"

\* C5: a save of an instance whose slug and sequence_no are set changes neither
\* of them, also when the block or the section of the instance was changed since
\* it was read.
C5_ResaveKeepsSlug ==
    [][\A p \in Procs :
        (BeginsSave(p) /\ pc'[p] = "saving" /\ obj[p].sequence_no # 0 /\ obj[p].slug # "")
            => /\ obj'[p].sequence_no = obj[p].sequence_no
               /\ obj'[p].slug = obj[p].slug]_vars

\* a step of regenerate_qr
Regenerates == \E p \in Procs : pc[p] = "idle" /\ pc'[p] = "done"

C10_QrPayload ==
    [][\A p \in Procs :
        (pc[p] \in {"fresh", "idle"} /\ pc'[p] \in {"saving", "done"}
           /\ obj'[p].qr_code # NoFile /\ (pc[p] = "fresh" => obj[p].qr_code = NoFile))
            => LET f == obj'[p].qr_code
                   slug == IF pc[p] = "fresh" THEN obj'[p].slug
                           ELSE rows[obj'[p].pk].slug
               IN  /\ f.data = BASE_URL \o "/" \o museumSlug[blockMuseum[obj'[p].block]]
                                \o "/" \o slug
                   /\ f.caption = slug
                   /\ f.name = slug \o ".png"
                   /\ BagIn(f, files')]_vars

\* the QR of ISC-REN2-1.0001 is stored
C10_QrStored ==
    \E k \in DOMAIN rows :
        /\ rows[k].qr_code = [name |-> "ISC-REN2-1.0001.png",
                              data |-> "http://127.0.0.1:8000/ISC/ISC-REN2-1.0001",
                              caption |-> "ISC-REN2-1.0001"]
        /\ BagIn(rows[k].qr_code, files)

FirstNonEmpty(chain) ==
    IF \A i \in 1..Len(chain) : chain[i] = "" THEN ""
    ELSE chain[CHOOSE i \in 1..Len(chain) :
                   chain[i] # "" /\ \A j \in 1..(i - 1) : chain[j] = ""]

\* _localized_content has returned
ContentReturned == request.view = "_localized_content" /\ response.status = "returned"

C12_ThreeEmptyGiveSlug ==
    ContentReturned
        => LET e == request.exhibit
           IN  /\ (e.title_ru = "" /\ e.title_en = "Statue" /\ e.title_uz = "Haykal")
                    => /\ request.lang = "ru" => response.value.title = "Statue"
                       /\ request.lang = "uz" => response.value.title = "Haykal"
               /\ (e.title_ru = "" /\ e.title_en = "" /\ e.title_uz = "")
                    => response.value.title = e.slug

\* C12 (amended): with title_ru empty, title_en "Statue" and title_uz "Haykal"
\* the title for ru is "Statue" and for uz "Haykal"; with title_ru, title_en and
\* title_uz all empty the title for ru, uz and en is the slug, and the title for
\* ar is title_ar when it is not empty and the slug when it is.
C12_ThreeEmptyGiveSlugOrArabic ==
    ContentReturned
        => LET e == request.exhibit
           IN  /\ (e.title_ru = "" /\ e.title_en = "Statue" /\ e.title_uz = "Haykal")
                    => /\ request.lang = "ru" => response.value.title = "Statue"
                       /\ request.lang = "uz" => response.value.title = "Haykal"
               /\ (e.title_ru = "" /\ e.title_en = "" /\ e.title_uz = "")
                    => /\ request.lang \in {"ru", "uz", "en"} => response.value.title = e.slug
                       /\ (request.lang = "ar" /\ e.title_ar = "")
                            => response.value.title = e.slug
                       /\ (request.lang = "ar" /\ e.title_ar # "")
                            => response.value.title = e.title_ar

\* the three titles are empty, title_ar is set and the title for ar is title_ar
C12_ArabicTitleShown ==
    /\ ContentReturned /\ request.lang = "ar"
    /\ request.exhibit.title_ru = "" /\ request.exhibit.title_en = ""
    /\ request.exhibit.title_uz = "" /\ request.exhibit.title_ar = "Timthal"
    /\ response.value.title = "Timthal"

\* the subtitle chain of a language: three subtitles, then the description
SubtitleChain(e, lang) ==
    CASE lang = "ru" -> <<e.sub_title_ru, e.sub_title_en, e.sub_title_uz, e.description_ru>>
      [] lang = "uz" -> <<e.sub_title_uz, e.sub_title_ru, e.sub_title_en, e.description_uz>>
      [] lang = "en" -> <<e.sub_title_en, e.sub_title_ru, e.sub_title_uz, e.description_en>>
      [] lang = "ar" -> <<e.sub_title_ar, e.sub_title_ru, e.sub_title_uz, e.description_ar>>

\* C13 (as claimed): the resolved subtitle is the first non-empty value of the
\* chain that ends with the description of the requested language, and empty
\* when all four are empty.
C13_SubtitleEndsWithDescription ==
    ContentReturned
        => response.value.subtitle = FirstNonEmpty(SubtitleChain(request.exhibit, request.lang))

\* C13 (amended): the resolved subtitle is the first non-empty value of the chain
\* (three subtitles, then the description of the requested language), and the
\* exhibit's slug when all four are empty.
C13_SubtitleEndsWithSlug ==
    ContentReturned
        => LET first == FirstNonEmpty(SubtitleChain(request.exhibit, request.lang))
           IN  response.value.subtitle = IF first = "" THEN request.exhibit.slug ELSE first

\* no subtitle is set: the description of uz is shown for uz
C13_DescriptionAsSubtitle ==
    /\ ContentReturned /\ request.lang = "uz"
    /\ request.exhibit.sub_title_uz = "" /\ request.exhibit.sub_title_ru = ""
    /\ request.exhibit.sub_title_en = "" /\ request.exhibit.description_uz = "desc uz"
    /\ request.exhibit.description_ru = "desc ru"
    /\ response.value.subtitle = "desc uz"

\* a step that leaves the exhibits and the requests on them as they are: a
\* step on the photos or on the catalog
ManagementStep == pc' = pc /\ rows' = rows

\* the step is the creation of a photo of this kind
CreatesPhoto(kind) ==
    ManagementStep /\ request'.view = "create_photo" /\ request'.kind = kind

C16_FrameUniqueness ==
    /\ [](\A i, j \in DOMAIN photos :
            (i # j /\ photos[i].kind = "frame" /\ photos[j].kind = "frame"
               /\ photos[i].exhibit = photos[j].exhibit)
                => photos[i].frame_index # photos[j].frame_index)
    /\ [][(CreatesPhoto("frame")
              /\ \E i \in DOMAIN photos : /\ photos[i].kind = "frame"
                                          /\ photos[i].exhibit = request'.exhibit
                                          /\ photos[i].frame_index = request'.frame_index)
            => response'.status # "ok" /\ photos' = photos]_vars
    /\ [][(CreatesPhoto("gallery") /\ request'.frame_index \in {NoIndex, 1, 5})
            => response'.status = "ok" /\ response'.id \in DOMAIN photos']_vars
    /\ [][(CreatesPhoto("frame") /\ request'.frame_index >= 1
              /\ ~\E i \in DOMAIN photos : /\ photos[i].kind = "frame"
                                           /\ photos[i].exhibit = request'.exhibit
                                           /\ photos[i].frame_index = request'.frame_index)
            => response'.status = "ok" /\ response'.id \in DOMAIN photos']_vars

\* two exhibits have a frame 1 each, and a second frame 1 of one of them was
\* rejected
C16_SecondFrameRejected ==
    /\ request.view = "create_photo" /\ request.kind = "frame" /\ request.frame_index = 1
    /\ response.status = "uniq_360_frame_per_exhibit"
    /\ \E i, j \in DOMAIN photos :
           /\ photos[i].kind = "frame" /\ photos[j].kind = "frame"
           /\ photos[i].frame_index = 1 /\ photos[j].frame_index = 1
           /\ photos[i].exhibit = request.exhibit /\ photos[j].exhibit # request.exhibit

\* the step is the deletion of museum m
DeletesMuseum(m) ==
    ManagementStep /\ request'.view = "delete_museum" /\ request'.museum = m /\ m \in museums

\* the blocks and the sections that go with museum m
BlocksOf(m) == {b \in blocks : blockMuseum[b] = m}
SectionsOf(m) ==
    {s \in sections : sectionMuseum[s] = m \/ blockMuseum[sectionBlock[s]] = m}

\* no block without its museum, no photo without its exhibit
NoOrphan ==
    /\ \A b \in blocks : blockMuseum[b] \in museums
    /\ \A i \in DOMAIN photos : photos[i].exhibit \in DOMAIN rows

\* the deletion of an exhibit takes its photos with it
ExhibitTakesPhotos ==
    \A k \in DOMAIN rows \ DOMAIN rows' :
        \A i \in DOMAIN photos' : photos'[i].exhibit # k

\* C18 (as claimed): the deletion of a museum removes it and its blocks, also
\* when these blocks have sections and exhibits; the deletion of an exhibit
\* removes its photos; no block or photo outlives its owner.
C18_CascadeAlways ==
    /\ [][\A m \in Museums :
            DeletesMuseum(m) => m \notin museums' /\ \A b \in blocks' : blockMuseum[b] # m]_vars
    /\ [][ExhibitTakesPhotos]_vars
    /\ []NoOrphan

\* C18 (amended): the deletion of a museum none of whose blocks and sections is
\* referenced by an exhibit removes the museum with its blocks and sections; when
\* an exhibit references one of them the deletion is refused (ProtectedError)
\* and removes nothing; the deletion of an exhibit removes its photos; no block
\* or photo outlives its owner.
C18_CascadeUnlessProtected ==
    /\ [][\A m \in Museums :
            DeletesMuseum(m)
                => IF \E k \in DOMAIN rows : \/ rows[k].block \in BlocksOf(m)
                                            \/ rows[k].section \in SectionsOf(m)
                   THEN /\ response'.status = "ProtectedError"
                        /\ UNCHANGED <<museums, blocks, sections, rows, photos>>
                   ELSE /\ response'.status = "ok"
                        /\ museums' = museums \ {m}
                        /\ blocks' = blocks \ BlocksOf(m)
                        /\ sections' = sections \ SectionsOf(m)
                        /\ UNCHANGED <<rows, photos>>]_vars
    /\ [][ExhibitTakesPhotos]_vars
    /\ []NoOrphan

\* a museum was deleted with its block and its section, while an exhibit of
\* another museum has a photo
C18_MuseumDeleted ==
    /\ request.view = "delete_museum" /\ response.status = "ok"
    /\ request.museum \notin museums
    /\ \A b \in Blocks : blockMuseum[b] = request.museum => b \notin blocks
    /\ \A s \in Sections : sectionMuseum[s] = request.museum => s \notin sections
    /\ \E i \in DOMAIN photos : photos[i].exhibit \in DOMAIN rows

\* the published exhibit with that slug whose block's museum has that slug
DetailMatch(museum_code, exhibit_code) ==
    \E k \in DOMAIN rows :
        /\ rows[k].slug = exhibit_code
        /\ rows[k].is_published
        /\ rows[k].block # None
        /\ museumSlug[blockMuseum[rows[k].block]] = museum_code

\* C19: the detail lookup for (museum_code, exhibit_code) returns the detail page
\* exactly when a published exhibit with that slug exists in the museum with that
\* slug; in every other case it answers not-found, and it has no other outcome
C19_PageOrNotFound ==
    [][ViewStep("exhibit_detail_qr")
         => IF DetailMatch(request'.museum_code, request'.exhibit_code)
            THEN response'.status = "200"
            ELSE response'.status = "404"]_vars

\* the step is regenerate_qr on the set request'.queryset
RegenerateStep ==
    /\ request'.view = "regenerate_qr"
    /\ UNCHANGED <<codeNum, createdOrder, nextPk, obj, pc, outcome>>

\* the QR of a persisted row: its slug under the slug of its block's museum
QrOfRow(row) ==
    [name |-> row.slug \o ".png",
     data |-> BASE_URL \o "/" \o museumSlug[blockMuseum[row.block]] \o "/" \o row.slug,
     caption |-> row.slug]

\* C20: regenerate_qr on a set of exhibits deletes the old QR file of each and
\* stores a new QR of its persisted slug; every other persisted field of every
\* exhibit and every exhibit outside the set stay as they were
C20_RegenerateFrame ==
    [][RegenerateStep =>
        LET queryset == request'.queryset
            new == {QrOfRow(rows[k]) : k \in queryset}
            old == {rows[k].qr_code : k \in queryset}
        IN  /\ DOMAIN rows' = DOMAIN rows
            /\ \A k \in queryset :
                    /\ rows'[k].qr_code = QrOfRow(rows[k])
                    /\ BagIn(rows'[k].qr_code, files')
                    /\ [rows'[k] EXCEPT !.qr_code = rows[k].qr_code] = rows[k]
            /\ \A f \in old \ new :
                    BagIn(f, files) => CopiesIn(f, files') < CopiesIn(f, files)
            /\ \A k \in DOMAIN rows \ queryset : rows'[k] = rows[k]
            /\ \A f \in BagToSet(files) \ (old \cup new) :
                    CopiesIn(f, files') = CopiesIn(f, files)
            /\ BagToSet(files') \subseteq BagToSet(files) \cup new]_vars

\* exhibit 1 was resaved after its section was renumbered, which left it the QR
\* of ISC-REN2-1.0001 (the instance of that save still holds it); regenerate_qr on
\* {1} then deleted that file and stored the QR of ISC-REN2-2.0001, while the
\* unpublished exhibit 2 was not selected
C20_OneOfTwoRegenerated ==
    /\ request.view = "regenerate_qr"
    /\ request.queryset = {1}
    /\ pc[1] = "done" /\ outcome[1] = "ok"
    /\ obj[1].pk = 1
    /\ obj[1].qr_code.name = "ISC-REN2-1.0001.png"
    /\ ~BagIn(obj[1].qr_code, files)
    /\ rows[1].slug = "ISC-REN2-2.0001"
    /\ rows[1].title_ru = "Vaza"
    /\ rows[1].qr_code = QrOfRow(rows[1])
    /\ BagIn(rows[1].qr_code, files)
    /\ 2 \in DOMAIN rows
    /\ ~rows[2].is_published

\* the step is the POST of the form by process p
SubmitsForm(p) == pc[p] = "form" /\ pc'[p] # "form"

\* C21: a form whose section belongs to another block than the chosen block is
\* rejected with an error on the field "section" and writes nothing; so every
\* exhibit created or edited through the form has section.museum_block = block
C21_SectionOfBlock ==
    /\ [][\A p \in Procs :
            (/\ SubmitsForm(p)
             /\ request'.block \in blocks
             /\ request'.section \in sections
             /\ sectionBlock[request'.section] # request'.block)
                => /\ response'.status = "invalid"
                   /\ "section" \in response'.errors
                   /\ outcome'[p] = "ValidationError"
                   /\ pc'[p] = "done"
                   /\ rows' = rows]_vars
    /\ [](\A p \in Procs : outcome[p] = "ValidationError" => pc[p] = "done")
    /\ [](\A k \in DOMAIN rows : sectionBlock[rows[k].section] = rows[k].block)

\* the change form of the persisted exhibit 1 of block REN2 was posted with block
\* ANT1 and the section of REN2, and was rejected on the field "section"
C21_CrossLinkRejected ==
    /\ request.view = "exhibit_form"
    /\ request.pk = 1
    /\ request.block = 2
    /\ request.section = 1
    /\ response.status = "invalid"
    /\ response.errors = {"section"}
    /\ pc[1] = "done" /\ outcome[1] = "ValidationError"
    /\ rows[1].block = 1 /\ rows[1].section = 1

\* first_frame_url has returned
PreviewReturned == request.view = "first_frame_url" /\ response.status = "returned"

\* the active gallery photos of the exhibit of the request
ActiveGallery ==
    {i \in DOMAIN request.photos :
        /\ request.photos[i].exhibit = request.exhibit.pk
        /\ request.photos[i].kind = "gallery"
        /\ request.photos[i].is_active}

\* C22: the first displayable frame URL is, with is_3d, frame-001.webp in the
\* frames folder of the exhibit whatever its photos are; else the URL of the
\* first active gallery photo by (creation time, id); else the URL of
\* single_image; else the empty string. Inactive photos and photos of the other
\* kind have no influence on it.
C22_FirstFrameUrl ==
    PreviewReturned
        => LET e == request.exhibit
               t == request.photos
           IN  /\ response.value =
                     IF e.is_3d
                     THEN "/media/exhibits/" \o e.slug \o "/frames/frame-001.webp"
                     ELSE IF \E i \in ActiveGallery : TRUE
                     THEN LET g == CHOOSE i \in ActiveGallery :
                                      \A j \in ActiveGallery \ {i} :
                                          \/ t[i].created_at < t[j].created_at
                                          \/ t[i].created_at = t[j].created_at /\ i < j
                          IN  "/media/" \o t[g].image
                     ELSE IF e.single_image # "" THEN "/media/" \o e.single_image
                     ELSE ""
               /\ response.value =
                     first_frame_url(e, [i \in ActiveGallery |-> t[i]])

\* photo 1 is an inactive gallery photo, photo 2 an active frame, photo 3 an
\* active gallery photo, and single_image is set: the preview is photo 3's image
C22_InactiveAndFramesSkipped ==
    /\ PreviewReturned
    /\ ~request.exhibit.is_3d
    /\ DOMAIN request.photos = {1, 2, 3}
    /\ \A i \in 1..3 : request.photos[i].exhibit = 1
    /\ request.photos[1].kind = "gallery" /\ ~request.photos[1].is_active
    /\ request.photos[2].kind = "frame" /\ request.photos[2].is_active
    /\ request.photos[3].kind = "gallery" /\ request.photos[3].is_active
    /\ request.exhibit.single_image # ""
    /\ response.value = "/media/exhibits/ISC-REN2-1.0001/gallery/c.webp"

\* C23: two exhibits that differ in (block, section, sequence_no) never compute
\* the same slug, so a creation whose sequence_no is free in its own (block,
\* section) is never rejected by the uniqueness of slug, in every catalog the
\* constraints of the models allow
C23_SlugInjective ==
    (request.view = "create_exhibits" /\ response.status # "none"
        /\ request.first # request.second)
        => /\ response.first # response.second
           /\ response.status = "ok"

\* C24: a slug, and the (block, section, sequence_no) behind it, once assigned
\* to an exhibit is never assigned to another exhibit, whatever creations and
\* deletions happen: the instance of a successful save keeps the slug and the
\* pk it was given, and no row of another pk ever carries them
C24_NeverReassigned ==
    \A p \in Procs, k \in DOMAIN rows :
        (pc[p] = "done" /\ outcome[p] = "ok" /\ obj[p].pk # None /\ obj[p].pk # k)
            => /\ rows[k].slug # obj[p].slug
               /\ ~(SameGroup(rows[k], obj[p]) /\ rows[k].sequence_no = obj[p].sequence_no)

\* C25: in every reachable state the QR of every persisted exhibit that has one
\* encodes the URL of the exhibit's current slug under the current slug of its
\* museum and is captioned with that slug, so the encoded path finds that same
\* exhibit in the detail view
C25_QrCurrent ==
    \A k \in DOMAIN rows :
        rows[k].qr_code # NoFile
            => /\ rows[k].qr_code.data = QrOfRow(rows[k]).data
               /\ rows[k].qr_code.caption = rows[k].slug
               /\ \A j \in DOMAIN rows :
                      rows[k].qr_code.data = QrOfRow(rows[j]).data => j = k

====
